---- MODULE Spec2Model ----
(***************************************************************************)
(* State poller of the network monitor and KMS replica key resources.      *)
(*                                                                         *)
(* monitor.go and replica_key.go configure a retry.StateChangeConf and     *)
(* call WaitForStateContext.  The configurations, the refresh functions    *)
(* and the wait wrappers are translated from the source.  The polling     *)
(* loop itself is imported from terraform-plugin-sdk and is not part of   *)
(* the source tree; it is modelled from section 4.1 and 7 of the          *)
(* specification.                                                          *)
(*                                                                         *)
(* Time is counted in ticks of 10 seconds.                                 *)
(***************************************************************************)
EXTENDS Integers, Sequences, FiniteSets, TLC

\* ------------------------------------------------------------------ bounds
\* longest time one fetch can take, in ticks
MaxFetchDur == 1
\* largest backoff a sleep adds on top of its floor, in ticks
MaxBackoff == 1
\* number of consecutive absent snapshots tolerated while a target is awaited
NotFoundChecks == 2
\* number of poll invocations in one behaviour
MaxCalls == 2
\* the fetch and sleep counters tell 0, 1, ... CountCap - 1 apart and stand
\* at CountCap for every larger count
CountCap == 2

\* ------------------------------------------------- configuration (source)
\* const timeout = time.Minute * 10 in waitMonitorReady
ReadyTimeout == 60
\* const timeout = time.Minute * 10 in waitMonitorDeleted
DeletedTimeout == 60
\* MinTimeout: 10 * time.Second in both monitor waiters
MonitorMinTimeout == 1
\* const timeout = 2 * time.Minute in waitReplicaKeyCreated
ReplicaKeyTimeout == 12
\* waitReplicaKeyCreated sets no MinTimeout
ReplicaKeyMinTimeout == 0

\* awstypes.MonitorState values named by monitor.go
MonitorState == {"PENDING", "ACTIVE", "INACTIVE", "DELETING"}
\* awstypes.KeyState values: the two named by waitReplicaKeyCreated and the
\* state a disabled key is in
KeyState == {"Creating", "Enabled", "Disabled"}

NoErr == "nil"
\* the absent snapshot (a nil interface value)
Nil == [State |-> ""]

Kinds == {"Ready", "Deleted", "ReplicaKey"}

\* mutant: ACTIVE listed as pending as well as target
waitMonitorReadyConf_overlap ==
    [Pending |-> {"PENDING", "ACTIVE"},
     Target |-> {"ACTIVE", "INACTIVE"},
     Timeout |-> ReadyTimeout,
     MinTimeout |-> MonitorMinTimeout]

\* mutant: the ten-minute timeout replaced by the replica key's two minutes
waitMonitorReadyConf_shortTimeout ==
    [Pending |-> {"PENDING"},
     Target |-> {"ACTIVE", "INACTIVE"},
     Timeout |-> ReplicaKeyTimeout,
     MinTimeout |-> MonitorMinTimeout]

\* mutant: DELETING listed as a pending state
waitMonitorReadyConf_deletingPending ==
    [Pending |-> {"PENDING", "DELETING"},
     Target |-> {"ACTIVE", "INACTIVE"},
     Timeout |-> ReadyTimeout,
     MinTimeout |-> MonitorMinTimeout]

\* mutant: INACTIVE listed as pending instead of target
waitMonitorReadyConf_activeOnly ==
    [Pending |-> {"PENDING", "INACTIVE"},
     Target |-> {"ACTIVE"},
     Timeout |-> ReadyTimeout,
     MinTimeout |-> MonitorMinTimeout]

\* mutant: MinTimeout left unset
waitMonitorReadyConf_noMinTimeout ==
    [Pending |-> {"PENDING"},
     Target |-> {"ACTIVE", "INACTIVE"},
     Timeout |-> ReadyTimeout,
     MinTimeout |-> 0]

\* mutant: a timeout twice as long
waitMonitorReadyConf_longTimeout ==
    [Pending |-> {"PENDING"},
     Target |-> {"ACTIVE", "INACTIVE"},
     Timeout |-> 2 * ReadyTimeout,
     MinTimeout |-> MonitorMinTimeout]

\* mutant: PENDING listed as a target state
waitMonitorReadyConf_pendingTarget ==
    [Pending |-> {},
     Target |-> {"PENDING", "ACTIVE", "INACTIVE"},
     Timeout |-> ReadyTimeout,
     MinTimeout |-> MonitorMinTimeout]

waitMonitorReadyConf ==
    [Pending |-> {"PENDING"},
     Target |-> {"ACTIVE", "INACTIVE"},
     Timeout |-> ReadyTimeout,
     MinTimeout |-> MonitorMinTimeout]

\* mutant: a target state configured for the delete wait
waitMonitorDeletedConf_nonEmptyTarget ==
    [Pending |-> {"DELETING", "ACTIVE"},
     Target |-> {"INACTIVE"},
     Timeout |-> DeletedTimeout,
     MinTimeout |-> MonitorMinTimeout]

waitMonitorDeletedConf ==
    [Pending |-> {"DELETING", "ACTIVE", "INACTIVE"},
     Target |-> {},
     Timeout |-> DeletedTimeout,
     MinTimeout |-> MonitorMinTimeout]

waitReplicaKeyCreatedConf ==
    [Pending |-> {"Creating"},
     Target |-> {"Enabled"},
     Timeout |-> ReplicaKeyTimeout,
     MinTimeout |-> ReplicaKeyMinTimeout]

stateConf(k) ==
    CASE k = "Ready" -> waitMonitorReadyConf
      [] k = "Deleted" -> waitMonitorDeletedConf
      [] OTHER -> waitReplicaKeyCreatedConf

\* --------------------------------------------------- the remote's answers
\* One answer of GetMonitor / DescribeKey: an object in some state, the
\* service's not-found exception, any other failure, or an empty output.
Codes == {"ok", "ResourceNotFoundException", "OtherError", "NilOutput"}

Responses(k) ==
    LET states == IF k = "ReplicaKey" THEN KeyState ELSE MonitorState
    IN  {[code |-> "ok", state |-> s] : s \in states}
        \cup {[code |-> c, state |-> ""] : c \in Codes \ {"ok"}}

\* tfresource.NotFound: true of retry.NotFoundError and of the empty-result
\* error, which converts to it
NotFound(err) == err \in {"NotFoundError", "EmptyResultError"}

\* mutant: the service's not-found exception is handed back unwrapped
findMonitorByName_noWrap(a) ==
    IF a.code \in {"ResourceNotFoundException", "OtherError"}
    THEN [output |-> Nil, err |-> a.code]
    ELSE IF a.code = "NilOutput"
    THEN [output |-> Nil, err |-> "EmptyResultError"]
    ELSE [output |-> [State |-> a.state], err |-> NoErr]

findMonitorByName(a) ==
    IF a.code = "ResourceNotFoundException"
    THEN [output |-> Nil, err |-> "NotFoundError"]
    ELSE IF a.code = "OtherError"
    THEN [output |-> Nil, err |-> "OtherError"]
    ELSE IF a.code = "NilOutput"
    THEN [output |-> Nil, err |-> "EmptyResultError"]
    ELSE [output |-> [State |-> a.state], err |-> NoErr]

\* mutant: every lookup error is treated like not-found
statusMonitor_swallowErr(a) ==
    LET f == findMonitorByName(a)
    IN  IF f.err # NoErr
        THEN [snap |-> Nil, label |-> "", err |-> NoErr]
        ELSE [snap |-> f.output, label |-> f.output.State, err |-> NoErr]

statusMonitor(a) ==
    LET f == findMonitorByName(a)
    IN  IF NotFound(f.err)
        THEN [snap |-> Nil, label |-> "", err |-> NoErr]
        ELSE IF f.err # NoErr
        THEN [snap |-> Nil, label |-> "", err |-> f.err]
        ELSE [snap |-> f.output, label |-> f.output.State, err |-> NoErr]

\* statusKeyState lives in another file of the kms package
statusKeyState(a) ==
    IF a.code \in {"ResourceNotFoundException", "NilOutput"}
    THEN [snap |-> Nil, label |-> "", err |-> NoErr]
    ELSE IF a.code = "OtherError"
    THEN [snap |-> Nil, label |-> "", err |-> "OtherError"]
    ELSE [snap |-> [State |-> a.state], label |-> a.state, err |-> NoErr]

Refresh(k, a) ==
    IF k = "ReplicaKey" THEN statusKeyState(a) ELSE statusMonitor(a)

\* mutant: the type assertion's result is not handed back
waitReturn_dropOutput(outputRaw, err) == [output |-> Nil, err |-> err]

\* mutant: the error is dropped when the type assertion fails
waitReturn_swallow(outputRaw, err) ==
    IF outputRaw # Nil
    THEN [output |-> outputRaw, err |-> err]
    ELSE [output |-> Nil, err |-> NoErr]

\* the tail of the three wait functions: the type assertion on outputRaw
\* and the error passed through unchanged
waitReturn(outputRaw, err) ==
    IF outputRaw # Nil
    THEN [output |-> outputRaw, err |-> err]
    ELSE [output |-> Nil, err |-> err]

\* ------------------------------------------------------------ the poller
Terminal == {"Target", "Unrecognized", "TimedOut", "Cancelled",
             "FetchError", "NotFoundDuringWait"}
PollStates == {"Pending"} \cup Terminal

Count(n) == IF n < CountCap THEN n + 1 ELSE n

\* a sleep is never shorter than the configured minimum
SleepFloor(k) == stateConf(k).MinTimeout

\* what one refresh result means to the poll
Classify(k, r, tick) ==
    IF r.err # NoErr THEN "FetchError"
    ELSE IF r.snap = Nil /\ stateConf(k).Target = {} THEN "Target"
    ELSE IF r.snap = Nil
    THEN IF tick + 1 > NotFoundChecks THEN "NotFoundDuringWait" ELSE "Pending"
    ELSE IF r.label \in stateConf(k).Target THEN "Target"
    ELSE IF r.label \in stateConf(k).Pending THEN "Pending"
    ELSE "Unrecognized"

\* the (result, error) pair WaitForStateContext hands back
PollResult(outcome, r) ==
    CASE outcome = "Target" -> [result |-> r.snap, err |-> NoErr]
      [] outcome = "Unrecognized" -> [result |-> Nil, err |-> "UnexpectedStateError"]
      [] outcome = "TimedOut" -> [result |-> Nil, err |-> "TimeoutError"]
      [] outcome = "Cancelled" -> [result |-> Nil, err |-> "context canceled"]
      [] outcome = "FetchError" -> [result |-> Nil, err |-> r.err]
      [] OTHER -> [result |-> Nil, err |-> "NotFoundError"]

NoResp == [code |-> "none", state |-> ""]
NoRefresh == [snap |-> Nil, label |-> "", err |-> NoErr]
NoRet == [output |-> Nil, err |-> "unset"]

VARIABLES
    kind,         \* which wait function is running
    pc,           \* idle, top, fetching, sleeping, done
    pollState,    \* state of the poll's state machine
    elapsed,      \* ticks since the poll started
    fetches,      \* fetches issued by this poll
    sleeps,       \* sleeps taken by this poll
    sinceFetch,   \* ticks slept since the last fetch returned
    resp,         \* the remote's answer to the last fetch
    last,         \* the last refresh result
    notfoundTick, \* consecutive absent snapshots
    onlyPending,  \* every fetch of this poll returned a pending-set label
    sawAbsent,    \* some fetch of this poll reported the resource absent
    cancel,       \* when the caller's context was cancelled: never,
                  \* before the first fetch was issued, while the first
                  \* fetch was in flight, or later
    ret,          \* what the wait function returned
    calls,        \* poll invocations so far
    prev          \* the wait function the previous invocation ran, when it
                  \* succeeded on its first fetch without a sleep

VARIABLES
    polls,        \* two polls running concurrently, one record each
    alone         \* per poll, the same poll run alone on the answers the
                  \* remote gives about that poll's own resource

concVars == <<polls, alone>>

VARIABLES
    res,          \* the resource type whose handlers run
    op,           \* the handler that is running or ran last
    hpc,          \* position inside the handler: "idle" between handlers
    plan,         \* the values the running handler works on
    state,        \* the stored Terraform state of the resource
    diags,        \* diagnostics of the handler that ran last
    trace,        \* remote calls issued by the handler, in order
    remote        \* the key state of the remote replica key

hVars == <<res, op, hpc, plan, state, diags, trace, remote>>

pollVars == <<kind, pc, pollState, elapsed, fetches, sleeps, sinceFetch, resp,
              last, notfoundTick, onlyPending, sawAbsent, cancel, ret, calls,
              prev>>

\* the state outside the single poll
restVars == <<concVars, hVars>>

vars == <<pollVars, restVars>>

cancelled == cancel # "never"

PollIdle ==
    /\ kind = "none"
    /\ pc = "idle"
    /\ pollState = "Pending"
    /\ elapsed = 0
    /\ fetches = 0
    /\ sleeps = 0
    /\ sinceFetch = 0
    /\ resp = NoResp
    /\ last = NoRefresh
    /\ notfoundTick = 0
    /\ onlyPending = TRUE
    /\ sawAbsent = FALSE
    /\ cancel = "never"
    /\ ret = NoRet
    /\ calls = 0
    /\ prev = "none"


\* ------------------------------------------------------ concurrent polls
\* Monitor Create of one monitor waits in waitMonitorReady while monitor
\* Delete of another waits in waitMonitorDeleted.
Pollers == {"pA", "pB"}
pollerKind(p) == IF p = "pA" THEN "Ready" ELSE "Deleted"
\* the monitor a poll was started for
ownName(p) == IF p = "pA" THEN "m1" ELSE "m2"
MonitorNames == {"m1", "m2"}

\* mutant: the name is kept in one place shared by all polls
lookupName_shared(p) == "m1"

\* the name the poll's refresh function looks up: the argument of the wait
\* function, captured by the closure statusMonitor returns
lookupName(p) == ownName(p)

NewPoll(k) ==
    [kind |-> k, pc |-> "top", pollState |-> "Pending", elapsed |-> 0,
     deadline |-> stateConf(k).Timeout, fetches |-> 0, tick |-> 0]

\* one iteration boundary of a poll record
TopStep(q) ==
    IF q.elapsed >= q.deadline
    THEN [q EXCEPT !.pc = "done", !.pollState = "TimedOut"]
    ELSE [q EXCEPT !.pc = "fetching", !.fetches = Count(@)]

\* the fetch of a poll record returns answer a after d ticks
FetchStep(q, a, d) ==
    LET r == Refresh(q.kind, a)
        outcome == Classify(q.kind, r, q.tick)
    IN  [q EXCEPT !.elapsed = @ + d,
                  !.tick = IF r.err = NoErr /\ r.snap = Nil THEN @ + 1 ELSE 0,
                  !.pc = IF outcome = "Pending" THEN "sleeping" ELSE "done",
                  !.pollState = outcome]

\* a poll record sleeps w ticks
SleepStep(q, w) == [q EXCEPT !.elapsed = @ + w, !.pc = "top"]

\* what the remote can answer about monitor n when its answer about monitor
\* o is a: the same for the same monitor, anything for another one
AnswerAbout(n, o, a) == IF n = o THEN {a} ELSE Responses("Ready")

ConcInit ==
    /\ polls = [p \in Pollers |-> NewPoll(pollerKind(p))]
    /\ alone = [p \in Pollers |-> NewPoll(pollerKind(p))]

ConcTop(p) ==
    /\ polls[p].pc = "top"
    /\ polls' = [polls EXCEPT ![p] = TopStep(@)]
    /\ alone' = [alone EXCEPT ![p] = TopStep(@)]
    /\ UNCHANGED <<pollVars, hVars>>

\* the remote answers about every monitor; the poll receives the answer
\* about the name it looked up
ConcFetch(p) ==
    /\ polls[p].pc = "fetching"
    /\ \E d \in 0..MaxFetchDur, own \in Responses("Ready") :
        \E got \in AnswerAbout(lookupName(p), ownName(p), own) :
            /\ polls' = [polls EXCEPT ![p] = FetchStep(@, got, d)]
            /\ alone' = [alone EXCEPT ![p] = FetchStep(@, own, d)]
    /\ UNCHANGED <<pollVars, hVars>>

ConcSleep(p) ==
    /\ polls[p].pc = "sleeping"
    /\ \E w \in SleepFloor(polls[p].kind)..(SleepFloor(polls[p].kind) + MaxBackoff) :
        /\ polls' = [polls EXCEPT ![p] = SleepStep(@, w)]
        /\ alone' = [alone EXCEPT ![p] = SleepStep(@, w)]
    /\ UNCHANGED <<pollVars, hVars>>

ConcNext == \E p \in Pollers : ConcTop(p) \/ ConcFetch(p) \/ ConcSleep(p)

\* ------------------------------------------------- resource handler data
Resources == {"monitor", "key", "assignment"}
Periods == {30, 60}

\* monitorResourceModel; exists tells whether a state is stored at all
NoMonitor ==
    [exists |-> FALSE, ID |-> "", MonitorName |-> "", AggregationPeriod |-> 0]

\* the attributes of aws_kms_replica_key the handlers branch on; an empty
\* policy is none configured, tags tells whether any are
\* tainted marks the state a failed Create leaves behind once the ID is set
NoKey ==
    [exists |-> FALSE, ID |-> "", enabled |-> TRUE, description |-> "",
     policy |-> "", tags |-> FALSE, tainted |-> FALSE]

Descriptions == {"d1", "d2"}
Policies == {"", "p1"}

\* applicationAssignmentResourceModel; strings are sequences of characters
NoAssignment ==
    [exists |-> FALSE, ID |-> <<>>, ApplicationARN |-> <<>>,
     PrincipalID |-> <<>>, PrincipalType |-> <<>>]

NoData(r) ==
    IF r = "key" THEN NoKey
    ELSE IF r = "assignment" THEN NoAssignment
    ELSE NoMonitor

\* no handler has run yet and nothing is stored
HandlerIdle(r) ==
    /\ res = r
    /\ op = "none"
    /\ hpc = "idle"
    /\ plan = NoData(r)
    /\ state = NoData(r)
    /\ diags = "none"
    /\ trace = <<>>
    /\ remote = "none"

Init == PollIdle /\ ConcInit /\ HandlerIdle("none")

\* the poll reaches a terminal state and the wait function returns
Finish(outcome, r) ==
    /\ pc' = "done"
    /\ pollState' = outcome
    /\ LET p == PollResult(outcome, r)
       IN  ret' = waitReturn(p.result, p.err)

\* a caller invokes one of the wait functions; its context may already be done
StartPoll ==
    /\ pc = "idle"
    /\ calls < MaxCalls
    /\ \E k \in Kinds : kind' = k
    /\ \E c \in {"never", "beforeFirstFetch"} : cancel' = c
    /\ pc' = "top"
    /\ pollState' = "Pending"
    /\ calls' = calls + 1
    /\ UNCHANGED <<elapsed, fetches, sleeps, sinceFetch, resp, last,
                   notfoundTick, onlyPending, sawAbsent, ret, prev>>
    /\ UNCHANGED restVars

\* iteration boundary: cancellation, then budget, then the next fetch
LoopTop ==
    /\ pc = "top"
    /\ IF cancelled
       THEN /\ Finish("Cancelled", last)
            /\ UNCHANGED fetches
       ELSE IF elapsed >= stateConf(kind).Timeout
       THEN /\ Finish("TimedOut", last)
            /\ UNCHANGED fetches
       ELSE /\ pc' = "fetching"
            /\ fetches' = Count(fetches)
            /\ UNCHANGED <<pollState, ret>>
    /\ UNCHANGED <<kind, elapsed, sleeps, sinceFetch, resp, last,
                   notfoundTick, onlyPending, sawAbsent, cancel, calls, prev>>
    /\ UNCHANGED restVars

\* the fetch in flight returns and its result is classified
FetchReturn ==
    /\ pc = "fetching"
    /\ \E d \in 0..MaxFetchDur, a \in Responses(kind) :
        LET r == Refresh(kind, a)
            outcome == Classify(kind, r, notfoundTick)
        IN  /\ elapsed' = elapsed + d
            /\ resp' = a
            /\ last' = r
            /\ notfoundTick' = IF r.err = NoErr /\ r.snap = Nil
                               THEN notfoundTick + 1 ELSE 0
            /\ onlyPending' = (onlyPending /\ r.err = NoErr /\ r.snap # Nil
                                /\ r.label \in stateConf(kind).Pending)
            /\ sawAbsent' = (sawAbsent \/ (r.err = NoErr /\ r.snap = Nil))
            /\ IF outcome = "Pending"
               THEN /\ pc' = "sleeping"
                    /\ UNCHANGED <<pollState, ret>>
               ELSE Finish(outcome, r)
    /\ sinceFetch' = 0
    /\ UNCHANGED <<kind, fetches, sleeps, cancel, calls, prev>>
    /\ UNCHANGED restVars

\* the wait between two fetches
Sleep ==
    /\ pc = "sleeping"
    /\ \E w \in SleepFloor(kind)..(SleepFloor(kind) + MaxBackoff) :
        /\ elapsed' = elapsed + w
        /\ sinceFetch' = sinceFetch + w
    /\ sleeps' = Count(sleeps)
    /\ pc' = "top"
    /\ UNCHANGED <<kind, pollState, fetches, resp, last, notfoundTick,
                   onlyPending, sawAbsent, cancel, ret, calls, prev>>
    /\ UNCHANGED restVars

\* the caller's context is cancelled while the poll runs
Cancel ==
    /\ pc \in {"top", "fetching", "sleeping"}
    /\ ~cancelled
    /\ cancel' = IF fetches = 0 THEN "beforeFirstFetch"
                 ELSE IF fetches = 1 /\ pc = "fetching" THEN "duringFirstFetch"
                 ELSE "later"
    /\ UNCHANGED <<kind, pc, pollState, elapsed, fetches, sleeps, sinceFetch,
                   resp, last, notfoundTick, onlyPending, sawAbsent, ret,
                   calls, prev>>
    /\ UNCHANGED restVars

\* the caller has consumed the result; the next invocation starts afresh
Return ==
    /\ pc = "done"
    /\ calls < MaxCalls
    /\ prev' = IF pollState = "Target" /\ fetches = 1 /\ sleeps = 0
               THEN kind ELSE "other"
    /\ kind' = "none"
    /\ pc' = "idle"
    /\ pollState' = "Pending"
    /\ elapsed' = 0
    /\ fetches' = 0
    /\ sleeps' = 0
    /\ sinceFetch' = 0
    /\ resp' = NoResp
    /\ last' = NoRefresh
    /\ notfoundTick' = 0
    /\ onlyPending' = TRUE
    /\ sawAbsent' = FALSE
    /\ cancel' = "never"
    /\ ret' = NoRet
    /\ UNCHANGED calls
    /\ UNCHANGED restVars

Next == StartPoll \/ LoopTop \/ FetchReturn \/ Sleep \/ Cancel \/ Return

Spec == Init /\ [][Next]_vars

ConcSpec == Init /\ [][ConcNext]_vars

\* A running poll keeps taking its steps, the fetch in flight returns, and
\* sleeps keep advancing the clock: a real sleep has positive length, so only
\* finitely many of them fit into one tick.
LiveSpec ==
    /\ Spec
    /\ WF_vars(LoopTop)
    /\ WF_vars(FetchReturn)
    /\ WF_vars(Sleep)
    /\ SF_vars(Sleep /\ elapsed' > elapsed)

TypeOK ==
    /\ kind \in Kinds \cup {"none"}
    /\ pc \in {"idle", "top", "fetching", "sleeping", "done"}
    /\ pollState \in PollStates
    /\ elapsed \in Nat
    /\ fetches \in 0..CountCap
    /\ sleeps \in 0..CountCap
    /\ cancel \in {"never", "beforeFirstFetch", "duringFirstFetch", "later"}
    /\ calls \in 0..MaxCalls

\* ------------------------------------------------------------------ claims

\* C1: every poll invocation starts in Pending and ends in exactly one
\* terminal outcome; the outcomes are mutually exclusive (the error handed
\* back names the outcome, and a success never rests on a label that is also
\* pending), only Pending has outgoing transitions, and once a terminal
\* outcome is reached no further fetch is issued and the outcome never
\* changes.
C1_PollStateMachine ==
    /\ [](/\ pollState \in PollStates
          /\ (pc = "done") <=> (pollState \in Terminal)
          /\ pc = "done" =>
                pollState = (CASE ret.err = NoErr -> "Target"
                               [] ret.err = "UnexpectedStateError" -> "Unrecognized"
                               [] ret.err = "TimeoutError" -> "TimedOut"
                               [] ret.err = "context canceled" -> "Cancelled"
                               [] ret.err = "NotFoundError" -> "NotFoundDuringWait"
                               [] OTHER -> "FetchError")
          /\ pollState = "Target" => last.label \notin stateConf(kind).Pending)
    /\ [][(pc = "idle" /\ pc' # "idle")
            => (pollState' = "Pending" /\ fetches' = 0)]_vars
    /\ [][(pollState' # pollState)
            => (pollState = "Pending" \/ pc' = "idle")]_vars
    /\ [][(pollState \in Terminal /\ pc' # "idle")
            => (pollState' = pollState /\ fetches' = fetches /\ ret' = ret)]_vars

\* a monitor-ready poll that slept and then ended in success
C1_Witness ==
    /\ kind = "Ready" /\ pc = "done" /\ pollState = "Target"
    /\ sleeps >= 1 /\ last.label = "ACTIVE"

\* C2: whenever a fetch answers with an object whose state is in the target
\* set (target and pending sets being disjoint), the poll returns success
\* and hands back the snapshot of that very fetch.
C2_TargetReturnsFinalSnapshot ==
    /\ [](\A k \in Kinds : stateConf(k).Target \cap stateConf(k).Pending = {})
    /\ [][(/\ pc = "fetching" /\ pc' # "fetching" /\ resp'.code = "ok"
            /\ resp'.state \in (CASE kind = "Ready" -> {"ACTIVE", "INACTIVE"}
                                  [] kind = "Deleted" -> {}
                                  [] OTHER -> {"Enabled"}))
            => (/\ pc' = "done"
                /\ pollState' = "Target"
                /\ ret' = [output |-> [State |-> resp'.state],
                            err |-> NoErr])]_vars

\* the label sequence PENDING ... INACTIVE ends a monitor-ready poll in
\* success with the INACTIVE snapshot
C2_Witness ==
    /\ kind = "Ready" /\ pc = "done" /\ pollState = "Target"
    /\ sleeps >= 1 /\ onlyPending = FALSE /\ notfoundTick = 0
    /\ ret = [output |-> [State |-> "INACTIVE"], err |-> NoErr]

\* C3 as stated: a poll whose every fetch returned a pending-set label ends
\* in Timeout no earlier than timeout and no later than timeout + minDelay
\* after it started.
C3_Original ==
    (pc = "done" /\ onlyPending /\ fetches >= 1 /\ cancel = "never")
    => (/\ pollState = "TimedOut"
        /\ ret.err = "TimeoutError"
        /\ elapsed >= (CASE kind = "Ready" -> ReadyTimeout
                         [] kind = "Deleted" -> DeletedTimeout
                         [] OTHER -> ReplicaKeyTimeout)
        /\ elapsed <= (CASE kind = "Ready" -> ReadyTimeout + MonitorMinTimeout
                         [] kind = "Deleted" -> DeletedTimeout + MonitorMinTimeout
                         [] OTHER -> ReplicaKeyTimeout + ReplicaKeyMinTimeout))

\* C3 (amended): a poll whose every fetch returned a pending-set label ends
\* in Timeout, no earlier than timeout and earlier than timeout + the
\* duration of one fetch + the length of the last sleep after it started;
\* that sleep is at least minDelay long.
C3_TimeoutWindow ==
    (pc = "done" /\ onlyPending /\ fetches >= 1 /\ cancel = "never")
    => (/\ pollState = "TimedOut"
        /\ ret.err = "TimeoutError"
        /\ elapsed >= (CASE kind = "Ready" -> ReadyTimeout
                         [] kind = "Deleted" -> DeletedTimeout
                         [] OTHER -> ReplicaKeyTimeout)
        /\ elapsed < (CASE kind = "Ready" -> ReadyTimeout
                        [] kind = "Deleted" -> DeletedTimeout
                        [] OTHER -> ReplicaKeyTimeout)
                     + MaxFetchDur + sinceFetch
        /\ sinceFetch >= (IF kind = "ReplicaKey" THEN ReplicaKeyMinTimeout
                          ELSE MonitorMinTimeout))

\* a monitor-ready poll that saw only PENDING timed out after ten minutes
C3_Witness ==
    /\ kind = "Ready" /\ pc = "done" /\ pollState = "TimedOut"
    /\ onlyPending /\ last.label = "PENDING" /\ elapsed >= ReadyTimeout

\* C4 as stated: a fetch that returns a label in neither the pending nor the
\* target set ends the poll in UnrecognizedState at once, with no retry and
\* no sleep.
C4_Original ==
    [][(/\ pc = "fetching" /\ pc' # "fetching" /\ last'.err = NoErr
        /\ last'.label \notin (CASE kind = "Ready" -> {"PENDING", "ACTIVE", "INACTIVE"}
                                 [] kind = "Deleted" -> {"DELETING", "ACTIVE", "INACTIVE"}
                                 [] OTHER -> {"Creating", "Enabled"}))
        => (pc' = "done" /\ pollState' = "Unrecognized")]_vars

\* C4 (amended): a fetch that finds the resource and returns a label in
\* neither the pending nor the target set ends the poll in UnrecognizedState
\* on that very fetch, with no retry and no sleep.
C4_UnrecognizedImmediately ==
    [][(/\ pc = "fetching" /\ pc' # "fetching" /\ resp'.code = "ok"
        /\ resp'.state \notin (CASE kind = "Ready" -> {"PENDING", "ACTIVE", "INACTIVE"}
                                 [] kind = "Deleted" -> {"DELETING", "ACTIVE", "INACTIVE"}
                                 [] OTHER -> {"Creating", "Enabled"}))
        => (/\ pc' = "done"
            /\ pollState' = "Unrecognized"
            /\ ret' = [output |-> Nil, err |-> "UnexpectedStateError"]
            /\ sleeps' = sleeps
            /\ fetches' = fetches)]_vars

\* a monitor-ready poll observed DELETING after a PENDING round
C4_Witness ==
    /\ kind = "Ready" /\ pc = "done" /\ pollState = "Unrecognized"
    /\ last.label = "DELETING" /\ sleeps >= 1

\* C5: every call whose first fetch finds the remote state already in the
\* target set returns success on that fetch: exactly one fetch, no sleep.
C5_Idempotent ==
    /\ [][(/\ pc = "fetching" /\ pc' # "fetching" /\ fetches = 1
           /\ resp'.code = "ok"
           /\ resp'.state \in (CASE kind = "Ready" -> {"ACTIVE", "INACTIVE"}
                                 [] kind = "Deleted" -> {}
                                 [] OTHER -> {"Enabled"}))
           => (/\ pc' = "done" /\ pollState' = "Target"
               /\ ret'.err = NoErr /\ ret'.output.State = resp'.state
               /\ fetches' = 1 /\ sleeps' = 0 /\ elapsed' <= MaxFetchDur)]_vars
    /\ [](prev \in Kinds => calls >= 1)

\* a second monitor-ready call on an INACTIVE monitor succeeded at once, as
\* the first one did
C5_Witness ==
    /\ calls = 2 /\ prev = "Ready" /\ kind = "Ready"
    /\ pc = "done" /\ pollState = "Target" /\ last.label = "INACTIVE"
    /\ fetches = 1 /\ sleeps = 0

\* C6 as stated: cancellation before the first fetch completes makes the
\* poll return Cancelled without having issued any fetch.
C6_Original ==
    (pc = "done" /\ cancel \in {"beforeFirstFetch", "duringFirstFetch"})
    => (pollState = "Cancelled" /\ fetches = 0)

\* C6 (amended): cancellation before the first fetch is issued makes the
\* poll return Cancelled without issuing any fetch, and the error handed
\* back is the cancellation, not a timeout.
C6_CancelledBeforeFirstFetch ==
    (cancel = "beforeFirstFetch")
    => (/\ fetches = 0
        /\ pc \in {"top", "done"}
        /\ pc = "done" => (/\ pollState = "Cancelled"
                           /\ ret = [output |-> Nil, err |-> "context canceled"]
                           /\ ret.err # "TimeoutError"))

\* a poll cancelled before its first fetch has returned
C6_Witness ==
    /\ cancel = "beforeFirstFetch" /\ pc = "done"
    /\ pollState = "Cancelled" /\ fetches = 0

\* C7: a fetch that fails with an error other than not-found ends the poll
\* at once with that error, whatever budget remains; the refresh function
\* hands the error on unchanged with an empty label, and no fetch follows.
C7_FetchErrorFatal ==
    /\ [][(pc = "fetching" /\ pc' # "fetching" /\ resp'.code = "OtherError")
            => (/\ pc' = "done"
                /\ pollState' = "FetchError"
                /\ last' = [snap |-> Nil, label |-> "", err |-> "OtherError"]
                /\ ret' = [output |-> Nil, err |-> "OtherError"]
                /\ sleeps' = sleeps)]_vars
    /\ [][(pollState = "FetchError" /\ pc' # "idle")
            => (pc' = "done" /\ fetches' = fetches)]_vars

\* a monitor-ready poll failed on a fetch error with budget left
C7_Witness ==
    /\ kind = "Ready" /\ pc = "done" /\ pollState = "FetchError"
    /\ resp.code = "OtherError" /\ sleeps >= 1
    /\ elapsed < ReadyTimeout

\* C8: statusMonitor maps a remote not-found to (absent, "", no error), any
\* other lookup error to an error result, and a found monitor to the object
\* with its state as the label; not-found never ends a poll in FetchError.
C8_StatusMapping ==
    (kind \in {"Ready", "Deleted"} /\ resp.code # "none")
    => (/\ resp.code = "ResourceNotFoundException"
              => (/\ last = [snap |-> Nil, label |-> "", err |-> NoErr]
                  /\ pollState # "FetchError")
        /\ resp.code = "OtherError"
              => (last.err = "OtherError" /\ last.snap = Nil /\ last.label = "")
        /\ resp.code = "ok"
              => last = [snap |-> [State |-> resp.state],
                         label |-> resp.state, err |-> NoErr])

\* a monitor-ready poll got not-found and went on to sleep
C8_Witness ==
    /\ kind = "Ready" /\ resp.code = "ResourceNotFoundException"
    /\ pc = "sleeping" /\ pollState = "Pending" /\ notfoundTick = 1

\* C9: in the delete wait (pending DELETING, ACTIVE, INACTIVE; no target) a
\* fetch that returns one of the pending labels is followed by a sleep, and
\* the first fetch that returns not-found ends the poll in success.
C9_DeletedByAbsence ==
    /\ [][(/\ kind = "Deleted" /\ pc = "fetching" /\ pc' # "fetching"
           /\ resp'.code = "ResourceNotFoundException")
           => (/\ pc' = "done" /\ pollState' = "Target"
               /\ ret' = [output |-> Nil, err |-> NoErr])]_vars
    /\ [][(/\ kind = "Deleted" /\ pc = "fetching" /\ pc' # "fetching"
           /\ resp'.code = "ok"
           /\ resp'.state \in {"DELETING", "ACTIVE", "INACTIVE"})
           => (pc' = "sleeping" /\ pollState' = "Pending")]_vars

\* a delete wait saw DELETING, slept, and succeeded on not-found
C9_Witness ==
    /\ kind = "Deleted" /\ pc = "done" /\ pollState = "Target"
    /\ resp.code = "ResourceNotFoundException" /\ sleeps >= 1
    /\ ret = [output |-> Nil, err |-> NoErr]

\* C10: within one poll every fetch after the first is issued only after a
\* sleep of at least minDelay (10 seconds for the monitor waits), and a
\* fetch that returns a target label ends the poll in the same step, with no
\* sleep.
C10_MinDelayFloor ==
    /\ [][(pc = "top" /\ pc' = "fetching" /\ fetches >= 1)
            => (/\ sleeps >= 1
                /\ sinceFetch >= (IF kind = "ReplicaKey" THEN 0 ELSE 1))]_vars
    /\ [][(pc = "fetching" /\ pc' # "fetching" /\ pollState' = "Target")
            => (/\ pc' = "done" /\ sleeps' = sleeps /\ sinceFetch' = 0
                /\ elapsed' - elapsed <= MaxFetchDur)]_vars

\* the second fetch of a monitor-ready poll is in flight after a sleep
C10_Witness ==
    /\ kind = "Ready" /\ pc = "fetching" /\ fetches = 2
    /\ sleeps = 1 /\ sinceFetch >= MonitorMinTimeout

\* C11: cancellation is cooperative: a poll turns Cancelled only at an
\* iteration boundary, a poll whose fetch is in flight ends only by that
\* fetch's own result (never as Cancelled), and once the signal has fired the
\* next iteration boundary returns Cancelled, the wait function handing back
\* the cancellation error, without another fetch being issued.
C11_CooperativeCancel ==
    /\ [][(pollState' = "Cancelled" /\ pollState # "Cancelled")
            => (/\ pc = "top" /\ cancelled
                /\ pc' = "done"
                /\ ret' = [output |-> Nil, err |-> "context canceled"])]_vars
    /\ [][(pc = "fetching" /\ pc' # "fetching")
            => (/\ resp' \in Responses(kind)
                /\ pollState' \notin {"Cancelled", "TimedOut"})]_vars
    /\ [][(cancelled /\ pc = "top")
            => (pc' = "done" /\ pollState' = "Cancelled")]_vars
    /\ [][(cancelled /\ pc # "fetching") => (pc' # "fetching")]_vars

\* a signal that fired during the first fetch was honoured at the boundary
\* after that fetch and its sleep
C11_Witness ==
    /\ cancel = "duringFirstFetch" /\ pc = "done" /\ pollState = "Cancelled"
    /\ fetches = 1 /\ sleeps = 1

\* C15: every running poll reaches a terminal state, and while it runs its
\* elapsed time stays below the timeout fixed at its start plus one fetch
\* and one sleep; retries do not extend the deadline.
C15_PollTerminates ==
    /\ [](pc \in {"top", "fetching", "sleeping"} => <>(pc = "done"))
    /\ [](pc # "idle" =>
            elapsed < (CASE kind = "Ready" -> ReadyTimeout + MonitorMinTimeout
                         [] kind = "Deleted" -> DeletedTimeout + MonitorMinTimeout
                         [] OTHER -> ReplicaKeyTimeout + ReplicaKeyMinTimeout)
                      + MaxFetchDur + MaxBackoff)

\* a replica key poll that only ever saw Creating has ended
C15_Witness ==
    /\ kind = "ReplicaKey" /\ pc = "done" /\ pollState = "TimedOut"
    /\ onlyPending /\ elapsed >= ReplicaKeyTimeout

setID_fromPeriod(data) ==
    [data EXCEPT !.ID = IF data.AggregationPeriod = 30 THEN "m1" ELSE "m2"]

setID(data) == [data EXCEPT !.ID = data.MonitorName]

InitFromID(data) == [data EXCEPT !.MonitorName = data.ID]

\* fwflex.Flatten of a GetMonitorOutput: the answer carries the name that
\* was looked up and the remote aggregation period; it has no ID field
Flatten(name, period, data) ==
    [data EXCEPT !.MonitorName = name, !.AggregationPeriod = period]

\* one remote call of a handler: what was called, for which identifier, and
\* the error it returned ("running" while a wait is in progress)
Call(c, k, e) == [call |-> c, key |-> k, err |-> e]

\* what the remote answered to a lookup, as recorded in the trace
Answer(a) == IF a.code = "ok" THEN NoErr ELSE a.code

\* the wait in progress has returned error e
Waited(tr, e) == [tr EXCEPT ![Len(tr)].err = e]

\* the poll of a handler starts; the handler's context may already be done
BeginWait(k) ==
    /\ kind' = k
    /\ pc' = "top"
    /\ pollState' = "Pending"
    /\ \E c \in {"never", "beforeFirstFetch"} : cancel' = c
    /\ sawAbsent' = FALSE
    /\ UNCHANGED <<elapsed, fetches, sleeps, sinceFetch, resp, last,
                   notfoundTick, onlyPending, ret, calls, prev>>

\* the handler has consumed the wait function's result; sawAbsent keeps
\* telling whether that wait met a missing object
EndWait ==
    /\ kind' = "none"
    /\ pc' = "idle"
    /\ pollState' = "Pending"
    /\ elapsed' = 0
    /\ fetches' = 0
    /\ sleeps' = 0
    /\ sinceFetch' = 0
    /\ resp' = NoResp
    /\ last' = NoRefresh
    /\ notfoundTick' = 0
    /\ onlyPending' = TRUE
    /\ cancel' = "never"
    /\ ret' = NoRet
    /\ UNCHANGED <<sawAbsent, calls, prev>>

\* a handler returns: its diagnostics and the state it leaves stored
HandlerReturn(d, st) ==
    /\ hpc' = "idle"
    /\ diags' = d
    /\ state' = st

\* mutant: the wait's error is not looked at
monitorCreateAfterWait_ignoreErr(data, w, st) ==
    [diags |-> "ok",
     state |-> [setID(Flatten(data.MonitorName, data.AggregationPeriod, data))
                    EXCEPT !.exists = TRUE]]

\* Create after waitMonitorReady returned w; st is the state stored before
monitorCreateAfterWait(data, w, st) ==
    IF w.err # NoErr
    THEN [diags |-> "error", state |-> st]
    ELSE [diags |-> "ok",
          state |-> [setID(Flatten(data.MonitorName, data.AggregationPeriod, data))
                        EXCEPT !.exists = TRUE]]

\* Create up to the start of the wait
MonitorCreate ==
    /\ res = "monitor" /\ hpc = "idle" /\ ~state.exists
    /\ op' = "Create"
    /\ \E n \in MonitorNames, per \in Periods, e \in {NoErr, "OtherError"} :
        LET data == [NoMonitor EXCEPT !.MonitorName = n, !.AggregationPeriod = per]
        IN  /\ plan' = data
            /\ IF e # NoErr
               THEN /\ trace' = <<Call("CreateMonitor", n, e)>>
                    /\ HandlerReturn("error", state)
                    /\ UNCHANGED pollVars
               ELSE /\ trace' = <<Call("CreateMonitor", n, e),
                                  Call("waitMonitorReady", data.MonitorName,
                                       "running")>>
                    /\ hpc' = "waiting"
                    /\ BeginWait("Ready")
                    /\ diags' = "none"
             /\ UNCHANGED state
    /\ UNCHANGED <<res, remote, concVars>>

MonitorCreateDone ==
    /\ res = "monitor" /\ op = "Create" /\ hpc = "waiting" /\ pc = "done"
    /\ LET r == monitorCreateAfterWait(plan, ret, state)
       IN  HandlerReturn(r.diags, r.state)
    /\ trace' = Waited(trace, ret.err)
    /\ EndWait
    /\ UNCHANGED <<res, op, plan, remote, concVars>>

\* Read after findMonitorByName returned f for the name taken from the ID
monitorRead(data, f, period) ==
    IF NotFound(f.err)
    THEN [diags |-> "warning", state |-> NoMonitor]
    ELSE IF f.err # NoErr
    THEN [diags |-> "error", state |-> data]
    ELSE [diags |-> "ok",
          state |-> Flatten(InitFromID(data).MonitorName, period,
                            InitFromID(data))]

MonitorRead ==
    /\ res = "monitor" /\ hpc = "idle" /\ state.exists
    /\ op' = "Read"
    /\ plan' = state
    /\ \E a \in Responses("Ready"), per \in Periods :
        LET f == findMonitorByName(a)
            r == monitorRead(state, f, per)
        IN  /\ trace' = <<Call("GetMonitor", InitFromID(state).MonitorName,
                                Answer(a))>>
            /\ HandlerReturn(r.diags, r.state)
    /\ UNCHANGED <<res, remote, pollVars, concVars>>

\* the planned values of an Update: the ID is carried over from the state
\* and a changed monitor_name would have forced a replacement
monitorPlan(st, period) == [st EXCEPT !.AggregationPeriod = period]

\* Update after waitMonitorReady returned w
monitorUpdateAfterWait(data, w, st) ==
    IF w.err # NoErr
    THEN [diags |-> "error", state |-> st]
    ELSE [diags |-> "ok",
          state |-> Flatten(data.ID, data.AggregationPeriod, data)]

\* Update up to the start of the wait, or to its end when nothing is to wait for
MonitorUpdate ==
    /\ res = "monitor" /\ hpc = "idle" /\ state.exists
    /\ op' = "Update"
    /\ \E per \in Periods, e \in {NoErr, "OtherError"} :
        LET data == monitorPlan(state, per)
        IN  /\ plan' = data
            /\ IF data.AggregationPeriod = state.AggregationPeriod
               THEN /\ trace' = <<>>
                    /\ HandlerReturn("ok", data)
                    /\ UNCHANGED pollVars
               ELSE IF e # NoErr
               THEN /\ trace' = <<Call("UpdateMonitor", data.MonitorName, e)>>
                    /\ HandlerReturn("error", state)
                    /\ UNCHANGED pollVars
               ELSE /\ trace' = <<Call("UpdateMonitor", data.MonitorName, e),
                                  Call("waitMonitorReady", data.ID, "running")>>
                    /\ hpc' = "waiting"
                    /\ BeginWait("Ready")
                    /\ diags' = "none"
             /\ UNCHANGED state
    /\ UNCHANGED <<res, remote, concVars>>

MonitorUpdateDone ==
    /\ res = "monitor" /\ op = "Update" /\ hpc = "waiting" /\ pc = "done"
    /\ LET r == monitorUpdateAfterWait(plan, ret, state)
       IN  HandlerReturn(r.diags, r.state)
    /\ trace' = Waited(trace, ret.err)
    /\ EndWait
    /\ UNCHANGED <<res, op, plan, remote, concVars>>

\* Delete after waitMonitorDeleted returned w: without an error diagnostic
\* the resource is dropped from the state
monitorDeleteAfterWait(w, st) ==
    IF w.err # NoErr
    THEN [diags |-> "error", state |-> st]
    ELSE [diags |-> "ok", state |-> NoMonitor]

\* Delete after DeleteMonitor returned e: the handler returns, or goes on
\* to wait when the call succeeded
monitorDeleteCall(e, st) ==
    IF e = "ResourceNotFoundException"
    THEN [wait |-> FALSE, diags |-> "ok", state |-> NoMonitor]
    ELSE IF e # NoErr
    THEN [wait |-> FALSE, diags |-> "error", state |-> st]
    ELSE [wait |-> TRUE, diags |-> "none", state |-> st]

MonitorDelete ==
    /\ res = "monitor" /\ hpc = "idle" /\ state.exists
    /\ op' = "Delete"
    /\ plan' = state
    /\ \E e \in {NoErr, "ResourceNotFoundException", "OtherError"} :
        LET r == monitorDeleteCall(e, state)
        IN  IF ~r.wait
            THEN /\ trace' = <<Call("DeleteMonitor", state.MonitorName, e)>>
                 /\ HandlerReturn(r.diags, r.state)
                 /\ UNCHANGED pollVars
            ELSE /\ trace' = <<Call("DeleteMonitor", state.MonitorName, e),
                               Call("waitMonitorDeleted", state.MonitorName,
                                    "running")>>
                 /\ hpc' = "waiting"
                 /\ BeginWait("Deleted")
                 /\ diags' = r.diags
                 /\ UNCHANGED state
    /\ UNCHANGED <<res, remote, concVars>>

\* Delete is called once more with the state a successful Delete was given;
\* the monitor is gone, so DeleteMonitor cannot succeed
MonitorDeleteAgain ==
    /\ res = "monitor" /\ hpc = "idle" /\ ~state.exists
    /\ op \in {"Delete", "DeleteAgain"} /\ diags = "ok"
    /\ op' = "DeleteAgain"
    /\ \E e \in {"ResourceNotFoundException", "OtherError"} :
        LET r == monitorDeleteCall(e, plan)
        IN  /\ ~r.wait
            /\ trace' = <<Call("DeleteMonitor", plan.MonitorName, e)>>
            /\ HandlerReturn(r.diags, NoMonitor)
    /\ UNCHANGED <<res, plan, remote, pollVars, concVars>>

MonitorDeleteDone ==
    /\ res = "monitor" /\ op = "Delete" /\ hpc = "waiting" /\ pc = "done"
    /\ LET r == monitorDeleteAfterWait(ret, state)
       IN  HandlerReturn(r.diags, r.state)
    /\ trace' = Waited(trace, ret.err)
    /\ EndWait
    /\ UNCHANGED <<res, op, plan, remote, concVars>>

\* -------------------------------------------------- replica key handlers
KeyID == "k1"

\* mutant: the key is disabled before it was observed Enabled
resourceReplicaKeyCreate_disableFirst(d) ==
    <<"ReplicateKey", "SetId">>
    \o (IF ~d.enabled THEN <<"updateKeyEnabled(false)">> ELSE <<>>)
    \o <<"waitReplicaKeyCreated">>
    \o (IF d.policy # "" THEN <<"waitKeyPolicyPropagated">> ELSE <<>>)
    \o (IF d.tags THEN <<"waitTagsPropagated">> ELSE <<>>)
    \o <<"Read">>

\* the steps of Create for the configuration d, in program order; every
\* step but SetId and Read is followed by a return on error
resourceReplicaKeyCreate(d) ==
    <<"ReplicateKey", "SetId", "waitReplicaKeyCreated">>
    \o (IF ~d.enabled THEN <<"updateKeyEnabled(false)">> ELSE <<>>)
    \o (IF d.policy # "" THEN <<"waitKeyPolicyPropagated">> ELSE <<>>)
    \o (IF d.tags THEN <<"waitTagsPropagated">> ELSE <<>>)
    \o <<"Read">>

\* d.HasChange(attr) for prior state st and planned values d
HasChange(st, d, attr) == st[attr] # d[attr]

\* mutant: the key is disabled before its attributes are modified
resourceReplicaKeyUpdate_disableFirst(st, d) ==
    (IF HasChange(st, d, "enabled") /\ d.enabled
     THEN <<"updateKeyEnabled(true)">> ELSE <<>>)
    \o (IF HasChange(st, d, "enabled") /\ ~d.enabled
        THEN <<"updateKeyEnabled(false)">> ELSE <<>>)
    \o (IF HasChange(st, d, "description")
        THEN <<"updateKeyDescription">> ELSE <<>>)
    \o (IF HasChange(st, d, "policy") THEN <<"updateKeyPolicy">> ELSE <<>>)
    \o <<"Read">>

\* the steps of Update from prior state st to planned values d, in program
\* order; every step but Read is followed by a return on error
resourceReplicaKeyUpdate(st, d) ==
    (IF HasChange(st, d, "enabled") /\ d.enabled
     THEN <<"updateKeyEnabled(true)">> ELSE <<>>)
    \o (IF HasChange(st, d, "description")
        THEN <<"updateKeyDescription">> ELSE <<>>)
    \o (IF HasChange(st, d, "policy") THEN <<"updateKeyPolicy">> ELSE <<>>)
    \o (IF HasChange(st, d, "enabled") /\ ~d.enabled
        THEN <<"updateKeyEnabled(false)">> ELSE <<>>)
    \o <<"Read">>

\* the steps of the handler that is running
Steps ==
    IF op = "Create" THEN resourceReplicaKeyCreate(plan)
    ELSE IF op = "Update" THEN resourceReplicaKeyUpdate(state, plan)
    ELSE <<"Read">>

\* the step the running handler is at: one trace entry per step taken
NextStep == Steps[Len(trace) + 1]

\* what a successful call does to the remote key
RemoteAfter(c, r) ==
    CASE c = "ReplicateKey" -> "Creating"
      [] c = "updateKeyEnabled(true)" -> "Enabled"
      [] c = "updateKeyEnabled(false)" -> "Disabled"
      [] OTHER -> r

\* Create is called with the configured values
KeyCreate ==
    /\ res = "key" /\ hpc = "idle" /\ ~state.exists
    /\ op' = "Create"
    /\ hpc' = "running"
    /\ \E en \in BOOLEAN, de \in Descriptions, po \in Policies, ta \in BOOLEAN :
        plan' = [NoKey EXCEPT !.enabled = en, !.description = de,
                              !.policy = po, !.tags = ta]
    /\ state' = NoKey
    /\ diags' = "none"
    /\ trace' = <<>>
    /\ UNCHANGED <<res, remote, pollVars, concVars>>

\* Update is called with planned values that differ from the state; the
\* plan is made from a refreshed state, and a tainted key is replaced
KeyUpdate ==
    /\ res = "key" /\ hpc = "idle" /\ state.exists
    /\ diags # "error" /\ ~state.tainted
    /\ op' = "Update"
    /\ hpc' = "running"
    /\ \E en \in BOOLEAN, de \in Descriptions, po \in Policies :
        /\ plan' = [state EXCEPT !.enabled = en, !.description = de,
                                 !.policy = po]
        /\ plan' # state
    /\ diags' = "none"
    /\ trace' = <<>>
    /\ UNCHANGED <<res, state, remote, pollVars, concVars>>

\* what is stored when the handler returns an error: a Create that has set
\* the ID leaves a tainted state, an Update leaves the prior state
KeyFailed(st) ==
    IF op = "Create" /\ st.ID # ""
    THEN [plan EXCEPT !.exists = TRUE, !.ID = st.ID, !.tainted = TRUE]
    ELSE st

\* one remote call or propagation wait of Create or Update returns
KeyCall ==
    /\ res = "key" /\ hpc = "running"
    /\ NextStep \notin {"SetId", "waitReplicaKeyCreated", "Read"}
    /\ \E e \in {NoErr, "OtherError"} :
        /\ trace' = Append(trace, Call(NextStep, state.ID, e))
        /\ IF e # NoErr
           THEN /\ HandlerReturn("error", KeyFailed(state))
                /\ UNCHANGED remote
           ELSE /\ remote' = RemoteAfter(NextStep, remote)
                /\ UNCHANGED <<hpc, diags, state>>
    /\ UNCHANGED <<res, op, plan, pollVars, concVars>>

\* d.SetId with the identifier ReplicateKey returned
KeySetId ==
    /\ res = "key" /\ hpc = "running"
    /\ NextStep = "SetId"
    /\ state' = [state EXCEPT !.ID = KeyID]
    /\ trace' = Append(trace, Call("SetId", KeyID, NoErr))
    /\ UNCHANGED <<res, op, hpc, plan, diags, remote, pollVars, concVars>>

\* Create calls waitReplicaKeyCreated
KeyBeginWait ==
    /\ res = "key" /\ hpc = "running"
    /\ NextStep = "waitReplicaKeyCreated"
    /\ trace' = Append(trace, Call("waitReplicaKeyCreated", state.ID, "running"))
    /\ hpc' = "waiting"
    /\ BeginWait("ReplicaKey")
    /\ UNCHANGED <<res, op, plan, state, diags, remote, concVars>>

\* waitReplicaKeyCreated returned
KeyWaited ==
    /\ res = "key" /\ hpc = "waiting" /\ pc = "done"
    /\ trace' = Waited(trace, ret.err)
    /\ IF ret.err # NoErr
       THEN /\ HandlerReturn("error", KeyFailed(state))
            /\ UNCHANGED remote
       ELSE /\ hpc' = "running"
            /\ remote' = ret.output.State
            /\ UNCHANGED <<diags, state>>
    /\ EndWait
    /\ UNCHANGED <<res, op, plan, concVars>>

\* what findKeyInfo can return
KeyLookups == {NoErr, "NotFoundError", "OtherError"}

\* mutant: a key that is not found is an error for every caller
resourceReplicaKeyRead_noDrift(d, isNew, f, r) ==
    IF f # NoErr
    THEN [diags |-> "error", state |-> d]
    ELSE [diags |-> "ok",
          state |-> [d EXCEPT !.exists = TRUE, !.enabled = (r = "Enabled")]]

\* Read of resource data d after findKeyInfo returned f, the remote key
\* being in state r
resourceReplicaKeyRead(d, isNew, f, r) ==
    IF ~isNew /\ NotFound(f)
    THEN [diags |-> "ok", state |-> NoKey]
    ELSE IF f # NoErr
    THEN [diags |-> "error", state |-> d]
    ELSE [diags |-> "ok",
          state |-> [d EXCEPT !.exists = TRUE, !.enabled = (r = "Enabled")]]

\* the Read that ends Create and Update
KeyReadStep ==
    /\ res = "key" /\ hpc = "running"
    /\ NextStep = "Read"
    /\ \E f \in KeyLookups :
        LET d == [plan EXCEPT !.ID = state.ID]
            r == resourceReplicaKeyRead(d, op = "Create", f, remote)
        IN  /\ trace' = Append(trace, Call("Read", state.ID, f))
            /\ HandlerReturn(r.diags,
                             IF r.diags = "error" THEN KeyFailed(state)
                             ELSE r.state)
            /\ remote' = IF r.state = NoKey THEN "none" ELSE remote
    /\ UNCHANGED <<res, op, plan, pollVars, concVars>>

\* Read called on its own to refresh the state
KeyRead ==
    /\ res = "key" /\ hpc = "idle" /\ state.exists
    /\ op' = "Read"
    /\ plan' = state
    /\ \E f \in KeyLookups :
        LET r == resourceReplicaKeyRead(state, FALSE, f, remote)
        IN  /\ trace' = <<Call("Read", state.ID, f)>>
            /\ HandlerReturn(r.diags, r.state)
            /\ remote' = IF r.state = NoKey THEN "none" ELSE remote
    /\ UNCHANGED <<res, pollVars, concVars>>

\* mutant: a key that is already pending deletion is an error
resourceReplicaKeyDelete_noPending(e, w, st) ==
    IF e = "NotFoundException"
    THEN [diags |-> "ok", state |-> NoKey]
    ELSE IF e # NoErr \/ w # NoErr
    THEN [diags |-> "error", state |-> st]
    ELSE [diags |-> "ok", state |-> NoKey]

\* Delete after ScheduleKeyDeletion returned e and waitKeyDeleted returned w
resourceReplicaKeyDelete(e, w, st) ==
    IF e \in {"NotFoundException", "is pending deletion"}
    THEN [diags |-> "ok", state |-> NoKey]
    ELSE IF e # NoErr \/ w # NoErr
    THEN [diags |-> "error", state |-> st]
    ELSE [diags |-> "ok", state |-> NoKey]

KeyDelete ==
    /\ res = "key" /\ hpc = "idle" /\ state.exists
    /\ op' = "Delete"
    /\ plan' = state
    /\ \E e \in {NoErr, "NotFoundException", "is pending deletion", "OtherError"},
          w \in {NoErr, "OtherError"} :
        LET r == resourceReplicaKeyDelete(e, w, state)
        IN  /\ trace' = IF e = NoErr
                        THEN <<Call("ScheduleKeyDeletion", state.ID, e),
                               Call("waitKeyDeleted", state.ID, w)>>
                        ELSE <<Call("ScheduleKeyDeletion", state.ID, e)>>
            /\ HandlerReturn(r.diags, r.state)
            /\ remote' = IF r.state = NoKey THEN "none" ELSE remote
    /\ UNCHANGED <<res, pollVars, concVars>>

\* Delete is called once more with the state a successful Delete was given;
\* the key is gone or pending deletion, so ScheduleKeyDeletion cannot succeed
KeyDeleteAgain ==
    /\ res = "key" /\ hpc = "idle" /\ ~state.exists
    /\ op \in {"Delete", "DeleteAgain"} /\ diags = "ok"
    /\ op' = "DeleteAgain"
    /\ \E e \in {"NotFoundException", "is pending deletion", "OtherError"} :
        LET r == resourceReplicaKeyDelete(e, NoErr, plan)
        IN  /\ trace' = <<Call("ScheduleKeyDeletion", plan.ID, e)>>
            /\ HandlerReturn(r.diags, NoKey)
    /\ UNCHANGED <<res, plan, remote, pollVars, concVars>>

\* --------------------------------------- application assignment handlers
applicationAssignmentIDPartCount == 3
ResourceIdSeparator == ","

ApplicationARNs == {<<"a", "1">>}
\* principal_id is any string: also the empty one and one that holds the
\* separator
PrincipalIDs == {<<"u">>, <<"g", "1">>, <<>>, <<"u", ",", "g">>}
PrincipalTypes == {<<"U">>, <<"G">>}

RECURSIVE Join(_)
\* strings.Join(parts, ResourceIdSeparator)
Join(parts) ==
    IF parts = <<>> THEN <<>>
    ELSE IF Len(parts) = 1 THEN parts[1]
    ELSE parts[1] \o <<ResourceIdSeparator>> \o Join(Tail(parts))

RECURSIVE Split(_)
\* strings.Split(s, ResourceIdSeparator)
Split(s) ==
    IF \A i \in DOMAIN s : s[i] # ResourceIdSeparator THEN <<s>>
    ELSE LET k == CHOOSE i \in DOMAIN s :
                    /\ s[i] = ResourceIdSeparator
                    /\ \A j \in 1..(i - 1) : s[j] # ResourceIdSeparator
         IN  <<SubSeq(s, 1, k - 1)>> \o Split(SubSeq(s, k + 1, Len(s)))

\* intflex.FlattenResourceId without empty parts allowed
FlattenResourceId(idParts, partCount) ==
    IF Len(idParts) # partCount \/ \E i \in DOMAIN idParts : idParts[i] = <<>>
    THEN [id |-> <<>>, err |-> "InvalidID"]
    ELSE [id |-> Join(idParts), err |-> NoErr]

\* intflex.ExpandResourceId without empty parts allowed
ExpandResourceId(id, partCount) ==
    LET idParts == Split(id)
    IN  IF Len(idParts) # partCount \/ \E i \in DOMAIN idParts : idParts[i] = <<>>
        THEN [parts |-> <<>>, err |-> "InvalidID"]
        ELSE [parts |-> idParts, err |-> NoErr]

\* the lookup of the assignment with identifier id when the remote answers a
findApplicationAssignmentByID(id, a) ==
    LET x == ExpandResourceId(id, applicationAssignmentIDPartCount)
    IN  IF x.err # NoErr THEN [out |-> <<>>, err |-> x.err]
        ELSE IF a.code = "ResourceNotFoundException"
        THEN [out |-> <<>>, err |-> "NotFoundError"]
        ELSE IF a.code = "OtherError" THEN [out |-> <<>>, err |-> "OtherError"]
        ELSE IF a.code = "NilOutput" THEN [out |-> <<>>, err |-> "EmptyResultError"]
        ELSE [out |-> x.parts, err |-> NoErr]

\* what DescribeApplicationAssignment can answer
AssignmentResponses == {[code |-> c, state |-> ""] : c \in Codes}

AssignmentCreate ==
    /\ res = "assignment" /\ hpc = "idle" /\ ~state.exists
    /\ op' = "Create"
    /\ \E arn \in ApplicationARNs, pid \in PrincipalIDs, pty \in PrincipalTypes,
          e \in {NoErr, "OtherError"} :
        LET id == FlattenResourceId(<<arn, pid, pty>>,
                                    applicationAssignmentIDPartCount).id
            data == [exists |-> TRUE, ID |-> id, ApplicationARN |-> arn,
                     PrincipalID |-> pid, PrincipalType |-> pty]
        IN  /\ plan' = data
            /\ trace' = <<Call("CreateApplicationAssignment", <<arn, pid, pty>>, e)>>
            /\ IF e # NoErr
               THEN HandlerReturn("error", state)
               ELSE HandlerReturn("ok", data)
    /\ UNCHANGED <<res, remote, pollVars, concVars>>

\* mutant: a lookup that finds nothing is reported like any other error
applicationAssignmentRead_noDrift(data, f) ==
    IF f.err # NoErr
    THEN [diags |-> "error", state |-> data]
    ELSE [diags |-> "ok",
          state |-> [data EXCEPT !.ApplicationARN = f.out[1],
                                 !.PrincipalID = f.out[2],
                                 !.PrincipalType = f.out[3]]]

\* Read after findApplicationAssignmentByID returned f
applicationAssignmentRead(data, f) ==
    IF NotFound(f.err)
    THEN [diags |-> "ok", state |-> NoAssignment]
    ELSE IF f.err # NoErr
    THEN [diags |-> "error", state |-> data]
    ELSE [diags |-> "ok",
          state |-> [data EXCEPT !.ApplicationARN = f.out[1],
                                 !.PrincipalID = f.out[2],
                                 !.PrincipalType = f.out[3]]]

AssignmentRead ==
    /\ res = "assignment" /\ hpc = "idle" /\ state.exists
    /\ op' = "Read"
    /\ plan' = state
    /\ \E a \in AssignmentResponses :
        LET f == findApplicationAssignmentByID(state.ID, a)
            r == applicationAssignmentRead(state, f)
            x == ExpandResourceId(state.ID, applicationAssignmentIDPartCount)
        IN  /\ trace' = IF x.err # NoErr
                        THEN <<Call("ExpandResourceId", state.ID, x.err)>>
                        ELSE <<Call("DescribeApplicationAssignment", x.parts,
                                    Answer(a))>>
            /\ HandlerReturn(r.diags, r.state)
    /\ UNCHANGED <<res, remote, pollVars, concVars>>

\* Delete after DeleteApplicationAssignment returned e
applicationAssignmentDelete(e, st) ==
    IF e = NoErr \/ e = "ResourceNotFoundException"
    THEN [diags |-> "ok", state |-> NoAssignment]
    ELSE [diags |-> "error", state |-> st]

AssignmentDelete ==
    /\ res = "assignment" /\ hpc = "idle" /\ state.exists
    /\ op' = "Delete"
    /\ plan' = state
    /\ \E e \in {NoErr, "ResourceNotFoundException", "OtherError"} :
        LET r == applicationAssignmentDelete(e, state)
        IN  /\ trace' = <<Call("DeleteApplicationAssignment",
                               <<state.ApplicationARN, state.PrincipalID,
                                 state.PrincipalType>>, e)>>
            /\ HandlerReturn(r.diags, r.state)
    /\ UNCHANGED <<res, remote, pollVars, concVars>>

\* Delete is called once more with the state a successful Delete was given;
\* the assignment is gone, so DeleteApplicationAssignment cannot succeed
AssignmentDeleteAgain ==
    /\ res = "assignment" /\ hpc = "idle" /\ ~state.exists
    /\ op \in {"Delete", "DeleteAgain"} /\ diags = "ok"
    /\ op' = "DeleteAgain"
    /\ \E e \in {"ResourceNotFoundException", "OtherError"} :
        LET r == applicationAssignmentDelete(e, plan)
        IN  /\ trace' = <<Call("DeleteApplicationAssignment",
                               <<plan.ApplicationARN, plan.PrincipalID,
                                 plan.PrincipalType>>, e)>>
            /\ HandlerReturn(r.diags, NoAssignment)
    /\ UNCHANGED <<res, plan, remote, pollVars, concVars>>

AssignmentNext ==
    \/ AssignmentCreate \/ AssignmentRead \/ AssignmentDelete
    \/ AssignmentDeleteAgain

KeyNext ==
    \/ KeyCreate \/ KeyUpdate \/ KeyCall \/ KeySetId \/ KeyBeginWait
    \/ KeyWaited \/ KeyReadStep \/ KeyRead \/ KeyDelete \/ KeyDeleteAgain

MonitorNext ==
    \/ MonitorCreate \/ MonitorCreateDone
    \/ MonitorRead
    \/ MonitorUpdate \/ MonitorUpdateDone
    \/ MonitorDelete \/ MonitorDeleteDone \/ MonitorDeleteAgain

PollNext == LoopTop \/ FetchReturn \/ Sleep \/ Cancel

HandlerInit ==
    /\ PollIdle /\ ConcInit
    /\ \E r \in Resources : HandlerIdle(r)

HandlerNext == MonitorNext \/ KeyNext \/ AssignmentNext \/ PollNext

HandlerSpec == HandlerInit /\ [][HandlerNext]_vars

\* C14: once monitor Create has stored ID = monitor_name, every stored state
\* has ID equal to monitor_name, no Read, Update or Delete changes the stored
\* ID, and every remote call of Read, Update and Delete is keyed by it.
C14_IdentifierImmutable ==
    /\ []((res = "monitor" /\ state.exists)
            => (state.ID = state.MonitorName /\ state.ID \in MonitorNames))
    /\ [][(res = "monitor" /\ state.exists /\ state'.exists)
            => (state'.ID = state.ID)]_vars
    /\ [][(res = "monitor" /\ op' \in {"Read", "Update", "Delete"}
             /\ trace' # trace)
            => (\A i \in DOMAIN trace' : trace'[i].key = state.ID)]_vars

\* an Update of monitor m2 that changed the aggregation period has waited
\* for the monitor and stored the planned values
C14_Witness ==
    /\ res = "monitor" /\ op = "Update" /\ hpc = "idle" /\ diags = "ok"
    /\ Len(trace) = 2 /\ trace[2] = Call("waitMonitorReady", "m2", NoErr)
    /\ state.exists /\ state.ID = "m2" /\ state.AggregationPeriod = 60

C13_NoErrorSwallowed ==
    /\ []((hpc = "waiting" /\ pc = "done"
             /\ pollState \in {"TimedOut", "Unrecognized", "FetchError",
                               "NotFoundDuringWait", "Cancelled"})
            => ret.err \notin {NoErr, "unset"})
    /\ [][(hpc = "waiting" /\ pc = "done" /\ hpc' # "waiting"
             /\ pollState \in {"TimedOut", "Unrecognized", "FetchError",
                               "NotFoundDuringWait", "Cancelled"})
            => (/\ hpc' = "idle"
                /\ diags' = "error"
                /\ Len(trace') = Len(trace)
                /\ trace'[Len(trace')].err = ret.err
                /\ state'.ID = state.ID
                /\ (res = "monitor" => state' = state))]_vars
    /\ []((hpc = "idle"
             /\ \E i \in DOMAIN trace :
                  /\ trace[i].call \in {"waitMonitorReady", "waitMonitorDeleted",
                                        "waitReplicaKeyCreated"}
                  /\ trace[i].err # NoErr)
            => diags = "error")

\* monitor Delete has returned an error because its wait timed out, and the
\* monitor is still in the state
C13_Witness ==
    /\ res = "monitor" /\ op = "Delete" /\ hpc = "idle" /\ diags = "error"
    /\ Len(trace) = 2
    /\ trace[2] = Call("waitMonitorDeleted", state.ID, "TimeoutError")
    /\ state.exists

\* C17: in replica key Update an enable call precedes every description and
\* policy update call and is the first call when enabled changes to true; a
\* disable call is issued only after every description and policy update the
\* change asks for has succeeded; after a failed step no step is issued.
C17_UpdateOrdering ==
    /\ []((res = "key" /\ op = "Update")
            => \A i, j \in DOMAIN trace :
                 /\ (/\ trace[i].call = "updateKeyEnabled(true)"
                     /\ trace[j].call \in {"updateKeyDescription", "updateKeyPolicy"})
                    => i < j
                 /\ (/\ trace[i].call = "updateKeyEnabled(false)"
                     /\ trace[j].call \in {"updateKeyDescription", "updateKeyPolicy"})
                    => (j < i /\ trace[j].err = NoErr)
                 /\ (trace[i].err # NoErr) => (i = Len(trace) /\ hpc = "idle"))
    /\ [][(res = "key" /\ op = "Update" /\ hpc = "running"
             /\ Len(trace') = Len(trace) + 1)
            => LET c == trace'[Len(trace')].call
                   done == {trace[i].call : i \in DOMAIN trace}
               IN  /\ (state.enabled # plan.enabled /\ plan.enabled /\ trace = <<>>)
                      => c = "updateKeyEnabled(true)"
                   /\ (c = "updateKeyEnabled(false)")
                      => /\ state.enabled # plan.enabled /\ ~plan.enabled
                         /\ (state.description # plan.description)
                            => "updateKeyDescription" \in done
                         /\ (state.policy # plan.policy)
                            => "updateKeyPolicy" \in done]_vars

\* an Update that changed description and policy and disabled the key has
\* issued its four calls in this order and succeeded
C17_Witness ==
    /\ res = "key" /\ op = "Update" /\ hpc = "idle" /\ diags = "ok"
    /\ [i \in DOMAIN trace |-> trace[i].call]
         = <<"updateKeyDescription", "updateKeyPolicy",
             "updateKeyEnabled(false)", "Read">>
    /\ ~state.enabled /\ remote = "Disabled"

\* C18: replica key Update issues a description or policy update call only
\* while the remote key is enabled.
C18_DisabledKeysNeverModified ==
    [][(res = "key" /\ op = "Update" /\ hpc = "running"
          /\ Len(trace') = Len(trace) + 1
          /\ trace'[Len(trace')].call \in {"updateKeyDescription", "updateKeyPolicy"})
         => remote = "Enabled"]_vars

\* C19: replica key Create issues its steps in the order ReplicateKey, SetId,
\* waitReplicaKeyCreated, disable, policy propagation wait, tag propagation
\* wait, Read; the optional ones only when configured; each step only after
\* the previous one succeeded; the disable call only once the key was
\* observed Enabled; the Read only after every configured wait succeeded.
C19_CreateOrdering ==
    /\ []((res = "key" /\ op = "Create")
            => LET pos(c) == CASE c = "ReplicateKey" -> 1
                               [] c = "SetId" -> 2
                               [] c = "waitReplicaKeyCreated" -> 3
                               [] c = "updateKeyEnabled(false)" -> 4
                               [] c = "waitKeyPolicyPropagated" -> 5
                               [] c = "waitTagsPropagated" -> 6
                               [] c = "Read" -> 7
                               [] OTHER -> 0
                   ok == {trace[i].call : i \in {j \in DOMAIN trace :
                                                   trace[j].err = NoErr}}
               IN  /\ \A i \in DOMAIN trace : pos(trace[i].call) > 0
                   /\ \A i, j \in DOMAIN trace :
                        (i < j) => /\ pos(trace[i].call) < pos(trace[j].call)
                                   /\ trace[i].err = NoErr
                   /\ (trace # <<>>) => trace[1].call = "ReplicateKey"
                   /\ (Len(trace) >= 2 /\ hpc # "idle") => state.ID = trace[2].key
                   /\ \A i \in DOMAIN trace :
                        /\ (trace[i].call = "updateKeyEnabled(false)")
                           => (~plan.enabled /\ "waitReplicaKeyCreated" \in ok)
                        /\ (trace[i].call = "waitKeyPolicyPropagated")
                           => plan.policy # ""
                        /\ (trace[i].call = "waitTagsPropagated") => plan.tags
                        /\ (trace[i].call = "Read")
                           => /\ "waitReplicaKeyCreated" \in ok
                              /\ ~plan.enabled => "updateKeyEnabled(false)" \in ok
                              /\ (plan.policy # "")
                                 => "waitKeyPolicyPropagated" \in ok
                              /\ plan.tags => "waitTagsPropagated" \in ok)
    /\ [][(res = "key" /\ op = "Create" /\ hpc = "running"
             /\ Len(trace') = Len(trace) + 1
             /\ trace'[Len(trace')].call = "updateKeyEnabled(false)")
            => remote = "Enabled"]_vars

\* a Create with enabled = false, a policy and tags ran all seven steps
C19_Witness ==
    /\ res = "key" /\ op = "Create" /\ hpc = "idle" /\ diags = "ok"
    /\ Len(trace) = 7 /\ trace[7] = Call("Read", KeyID, NoErr)
    /\ trace[4] = Call("updateKeyEnabled(false)", KeyID, NoErr)
    /\ state.exists /\ ~state.enabled /\ state.policy = "p1" /\ state.tags

\* C20: a Read whose lookup finds no remote object drops the resource from
\* the state (monitor, application assignment) or clears its ID (replica key
\* that is not newly created) and reports no error; a Read whose lookup
\* fails otherwise reports an error and leaves the stored state unchanged.
C20_ReadDriftDetection ==
    /\ [][(hpc = "idle" /\ hpc' = "idle" /\ op' = "Read")
            => LET e == trace'[1].err
               IN  /\ Len(trace') = 1
                   /\ (e \in {"ResourceNotFoundException", "NilOutput",
                              "NotFoundError"})
                      => (/\ diags' # "error"
                          /\ ~state'.exists
                          /\ (res = "key") => (state'.ID = ""))
                   /\ (e \in {"OtherError", "InvalidID"})
                      => (diags' = "error" /\ state' = state)
                   /\ (e = NoErr)
                      => (/\ diags' = "ok" /\ state'.exists
                          /\ state'.ID = state.ID)]_vars
    /\ [][(res = "key" /\ op = "Update" /\ hpc = "running" /\ hpc' = "idle"
             /\ trace'[Len(trace')] = Call("Read", state.ID, "NotFoundError"))
            => (diags' # "error" /\ state'.ID = "")]_vars

\* the Read of an application assignment that is gone remotely has dropped
\* it from the state without an error
C20_Witness ==
    /\ res = "assignment" /\ op = "Read" /\ hpc = "idle"
    /\ Len(trace) = 1 /\ trace[1].err = "ResourceNotFoundException"
    /\ trace[1].key = <<<<"a", "1">>, <<"g", "1">>, <<"U">>>>
    /\ ~state.exists /\ diags = "ok" /\ plan.exists

\* C21: monitor Create writes state only when CreateMonitor succeeded and the
\* last fetch of its wait returned ACTIVE or INACTIVE, and then the stored ID
\* is the monitor_name; when CreateMonitor or the wait fails, Create reports
\* an error and no state is written; no state is stored while Create runs.
C21_CreateWritesAfterReady ==
    /\ [][(res = "monitor" /\ op' = "Create" /\ hpc' = "idle" /\ state'.exists)
            => (/\ op = "Create" /\ hpc = "waiting" /\ pc = "done"
                /\ Len(trace) = 2
                /\ trace[1] = Call("CreateMonitor", plan.MonitorName, NoErr)
                /\ resp.code = "ok" /\ resp.state \in {"ACTIVE", "INACTIVE"}
                /\ ret.err = NoErr
                /\ ret.output.State \in {"ACTIVE", "INACTIVE"}
                /\ diags' = "ok"
                /\ state'.ID = plan.MonitorName
                /\ state'.MonitorName = plan.MonitorName)]_vars
    /\ [][(res = "monitor" /\ op' = "Create" /\ hpc' = "idle" /\ hpc # hpc'
             /\ ret.err # NoErr)
            => (diags' = "error" /\ ~state'.exists)]_vars
    /\ [][(res = "monitor" /\ op' = "Create" /\ hpc = "idle" /\ hpc' = "idle"
             /\ trace'[1].err # NoErr)
            => (diags' = "error" /\ ~state'.exists /\ Len(trace') = 1)]_vars
    /\ []((res = "monitor" /\ op = "Create" /\ hpc = "waiting") => ~state.exists)

\* Create of m2 has written its state after a wait that succeeded without
\* ever finding the monitor missing
C21_Witness ==
    /\ res = "monitor" /\ op = "Create" /\ hpc = "idle" /\ diags = "ok"
    /\ state.exists /\ state.ID = "m2" /\ state.MonitorName = "m2"
    /\ Len(trace) = 2 /\ trace[2] = Call("waitMonitorReady", "m2", NoErr)
    /\ ~sawAbsent

\* C22: monitor Delete returns without error only when DeleteMonitor
\* answered resource-not-found or the last fetch of the delete wait found no
\* monitor; a Delete whose last fetch returned a monitor, in whatever state,
\* reports an error and keeps the stored state.
C22_DeleteOnlyWhenAbsent ==
    /\ [][(res = "monitor" /\ op' = "Delete" /\ hpc' = "idle"
             /\ diags' # "error")
            => \/ /\ hpc = "idle"
                  /\ trace' = <<Call("DeleteMonitor", state.MonitorName,
                                     "ResourceNotFoundException")>>
                  /\ ~state'.exists
               \/ /\ hpc = "waiting" /\ op = "Delete" /\ pc = "done"
                  /\ trace[1] = Call("DeleteMonitor", state.MonitorName, NoErr)
                  /\ resp.code \in {"ResourceNotFoundException", "NilOutput"}
                  /\ last.snap = Nil /\ last.err = NoErr
                  /\ ret.err = NoErr
                  /\ ~state'.exists]_vars
    /\ [][(res = "monitor" /\ op = "Delete" /\ hpc = "waiting" /\ hpc' = "idle"
             /\ resp.code = "ok"
             /\ resp.state \in {"DELETING", "ACTIVE", "INACTIVE", "PENDING"})
            => (diags' = "error" /\ state' = state)]_vars

\* Delete of m1 has succeeded because its wait found the monitor gone
C22_Witness ==
    /\ res = "monitor" /\ op = "Delete" /\ hpc = "idle" /\ diags = "ok"
    /\ ~state.exists /\ plan.ID = "m1" /\ sawAbsent
    /\ Len(trace) = 2 /\ trace[2] = Call("waitMonitorDeleted", "m1", NoErr)

\* C23: for the monitor, the application assignment and the replica key, a
\* Delete whose remote delete call answers not-found (for the replica key
\* also that the key is pending deletion) returns at once without an error,
\* without a wait and with the resource out of the state; this holds of the
\* first Delete and of a Delete repeated after a successful one.
C23_DeleteIdempotent ==
    [][(hpc = "idle" /\ op' \in {"Delete", "DeleteAgain"} /\ trace' # <<>>
          /\ \/ hpc' # "idle"
             \/ op' # op
             \/ trace' # trace
             \/ state' # state
             \/ diags' # diags)
         => LET e == trace'[1].err
                gone == IF res = "key"
                        THEN {"NotFoundException", "is pending deletion"}
                        ELSE {"ResourceNotFoundException"}
            IN  /\ trace'[1].call
                     = (CASE res = "monitor" -> "DeleteMonitor"
                          [] res = "key" -> "ScheduleKeyDeletion"
                          [] OTHER -> "DeleteApplicationAssignment")
                /\ (e \in gone)
                   => (/\ hpc' = "idle"
                       /\ diags' = "ok"
                       /\ Len(trace') = 1
                       /\ pc' = "idle"
                       /\ ~state'.exists)
                /\ (op' = "DeleteAgain")
                   => (/\ op \in {"Delete", "DeleteAgain"} /\ diags = "ok"
                       /\ ~state.exists
                       /\ trace'[1].key = trace[1].key)]_vars

\* the Delete of a replica key succeeded, and so did the Delete repeated
\* after it, on the answer that the key is pending deletion
C23_Witness ==
    /\ res = "key" /\ op = "DeleteAgain" /\ hpc = "idle" /\ diags = "ok"
    /\ trace = <<Call("ScheduleKeyDeletion", KeyID, "is pending deletion")>>
    /\ ~state.exists /\ plan.exists

\* C24: the ID that application assignment Create stores splits into the
\* three parts it was built from, in their order; Read looks up exactly
\* these parts; an ID that does not split into three parts makes Read fail
\* without a remote call.
C24_IDRoundTrip ==
    /\ []((res = "assignment" /\ state.exists)
            => ExpandResourceId(state.ID, 3)
                 = [parts |-> <<state.ApplicationARN, state.PrincipalID,
                                state.PrincipalType>>,
                    err |-> NoErr])
    /\ [][(res = "assignment" /\ hpc = "idle" /\ op' = "Read"
             /\ trace'[1].call = "DescribeApplicationAssignment")
            => (trace'[1].key = <<state.ApplicationARN, state.PrincipalID,
                                  state.PrincipalType>>)]_vars
    /\ [][(res = "assignment" /\ hpc = "idle" /\ op' = "Read"
             /\ Len(Split(state.ID)) # 3)
            => (/\ diags' = "error"
                /\ \A i \in DOMAIN trace' :
                     trace'[i].call # "DescribeApplicationAssignment")]_vars

====
